---- MODULE Spec2Model ----
(***************************************************************************)
(* Grounded segmentation pipeline (inst/python): detect -> get_boxes ->    *)
(* segment -> refine_masks -> annotate / JSON dump, as driven by main.     *)
(*                                                                         *)
(* Arrays are records [shape |-> <<H, W>>, px |-> [pixel -> value]] with   *)
(* pixels <<y, x>>, 0-based.  An Optional value is <<>> (None) or <<v>>.   *)
(* Strings that the code inspects character by character (labels) are      *)
(* sequences of one-character strings.                                     *)
(***************************************************************************)
EXTENDS Integers, Sequences, FiniteSets, TLC

VARIABLES
    pc,                 \* position of the running call
    args,               \* argparse namespace handed to main
    image,              \* the decoded image: [shape |-> <<H, W>>]
    labels,             \* labels argument of detect
    detection_results,  \* the list of DetectionResult objects
    before,             \* detection_results as they were when the call began
    masks,              \* refine_masks: the reduced masks / the refinement chain
    ret,                \* return value of the call
    output,             \* what main wrote: JSON file, stdout, plot
    error,              \* "none" or the exception that ended the call
    calls,              \* external capabilities invoked so far
    heap                \* pixel buffers by reference (annotate)

vars == <<pc, args, image, labels, detection_results, before, masks, ret,
          output, error, calls, heap>>

(***************************************************************************)
(* Bounds                                                                  *)
(***************************************************************************)
MaxDetections == 2      \* detections per image
MaxH == 3               \* mask height in the refinement chain
MaxRefinements == 2     \* length of the refinement chain

None == <<>>
Some(v) == <<v>>

(***************************************************************************)
(* Pixel grids                                                             *)
(***************************************************************************)
Pixels(shape) == {<<y, x>> : y \in 0..(shape[1] - 1), x \in 0..(shape[2] - 1)}

Abs(n) == IF n < 0 THEN -n ELSE n

Adj4(p, q) == Abs(p[1] - q[1]) + Abs(p[2] - q[2]) = 1

Adj8(p, q) ==
    /\ p # q
    /\ Abs(p[1] - q[1]) <= 1
    /\ Abs(p[2] - q[2]) <= 1

Adjacent(p, q, four) == IF four THEN Adj4(p, q) ELSE Adj8(p, q)

\* The pixels of allowed reachable from S by steps of the given connectivity.
RECURSIVE Grow(_, _, _)
Grow(S, allowed, four) ==
    LET new == {q \in allowed \ S : \E p \in S : Adjacent(p, q, four)}
    IN  IF new = {} THEN S ELSE Grow(S \cup new, allowed, four)

\* 8-connected components of a pixel set.
RECURSIVE Components(_)
Components(S) ==
    IF S = {} THEN {}
    ELSE LET p == CHOOSE q \in S : TRUE
             C == Grow({p}, S, FALSE)
         IN  {C} \cup Components(S \ C)

\* np.zeros(image_shape, dtype=np.uint8)
Zeros(shape) == [shape |-> shape, px |-> [p \in Pixels(shape) |-> 0]]

\* Non-zero pixels: what cv2.findContours takes as foreground.
Foreground(mask) == {p \in DOMAIN mask.px : mask.px[p] # 0}

(***************************************************************************)
(* cv2.findContours / cv2.contourArea / cv2.fillPoly on pixel grids.       *)
(* A contour is the set of pixels the border following visits; its order   *)
(* and the CHAIN_APPROX_SIMPLE compression do not change what it encloses. *)
(***************************************************************************)
Dirs4 == {<<0, 1>>, <<0, -1>>, <<1, 0>>, <<-1, 0>>}

MinOf(S) == CHOOSE n \in S : \A m \in S : n <= m
MaxOf(S) == CHOOSE n \in S : \A m \in S : m <= n

\* The bounding rectangle of a non-empty pixel set.
BBox(S) ==
    LET ys == {p[1] : p \in S}
        xs == {p[2] : p \in S}
    IN  {<<y, x>> : y \in MinOf(ys)..MaxOf(ys), x \in MinOf(xs)..MaxOf(xs)}

\* S together with every pixel S separates from the outside: background
\* reaches the outside by 4-connected steps that avoid S.
Enclosed(S) ==
    IF S = {} THEN {}
    ELSE LET box  == BBox(S)
             rim  == {p \in box \ S : \E d \in Dirs4 :
                          <<p[1] + d[1], p[2] + d[2]>> \notin box}
             free == Grow(rim, box \ S, TRUE)
         IN  box \ free

\* The outer border of an 8-connected component: its pixels with a
\* 4-neighbour outside of what the component encloses.
OuterBorder(C) ==
    LET inside == Enclosed(C)
    IN  {p \in C : \E d \in Dirs4 : <<p[1] + d[1], p[2] + d[2]>> \notin inside}

\* cv2.findContours(mask.astype(np.uint8), RETR_EXTERNAL, CHAIN_APPROX_SIMPLE):
\* the outer borders of the outermost components, as points <<x, y>>.
findContours(mask) ==
    LET comps    == Components(Foreground(mask))
        external == {C \in comps :
                        ~ \E D \in comps \ {C} : C \subseteq Enclosed(D)}
    IN  {{<<p[2], p[1]>> : p \in OuterBorder(C)} : C \in external}

\* Twice cv2.contourArea(contour): the area of the polygon through the
\* pixel centres.  A 2x2 block of pixels inside the contour adds a unit
\* square, three of the four add half of one.
contourArea2(contour) ==
    LET region == Enclosed(contour)
        block(p) == {p, <<p[1], p[2] + 1>>, <<p[1] + 1, p[2]>>,
                     <<p[1] + 1, p[2] + 1>>}
        corners == {<<p[1] + dy, p[2] + dx>> : p \in region,
                                                dy \in {-1, 0}, dx \in {-1, 0}}
        full == {p \in corners : Cardinality(block(p) \cap region) = 4}
        half == {p \in corners : Cardinality(block(p) \cap region) = 3}
    IN  2 * Cardinality(full) + Cardinality(half)

\* max(contours, key=cv2.contourArea): the first contour of largest area in
\* the order findContours returned them.  That order is cv2's, so any contour
\* of largest area may be the one returned.
LargestContours(contours) ==
    {c \in contours : \A d \in contours : contourArea2(d) <= contourArea2(c)}

\* mask_to_polygon: the polygons the call may return; none when max() is
\* handed an empty sequence and raises ValueError.
mask_to_polygon(mask) == LargestContours(findContours(mask))

FillColor == 255

\* polygon_to_mask with the points taken as <<row, column>>.
polygon_to_mask_transposed(polygon, image_shape) ==
    LET filled == Enclosed(polygon)
    IN  [shape |-> image_shape,
         px    |-> [p \in Pixels(image_shape) |->
                       IF p \in filled THEN FillColor ELSE 0]]

\* polygon_to_mask: zeros of image_shape with the polygon filled (cv2.fillPoly
\* draws the edges and fills what they enclose, clipped to the array; a point
\* <<x, y>> is the pixel of row y, column x).
polygon_to_mask(polygon, image_shape) ==
    LET filled == {<<q[2], q[1]>> : q \in Enclosed(polygon)}
        mask   == Zeros(image_shape)
    IN  [mask EXCEPT !.px = [p \in DOMAIN mask.px |->
                                IF p \in filled THEN FillColor ELSE mask.px[p]]]

\* One pass of the loop body of refine_masks (utils.py lines 73-76).
RefineStepResults(mask) ==
    {polygon_to_mask(polygon, mask.shape) : polygon \in mask_to_polygon(mask)}

(***************************************************************************)
(* Mask reduction and refinement (utils.py, refine_masks)                  *)
(***************************************************************************)
\* The raw tensor is a sequence (boxes) of sequences (channels) of boolean
\* arrays of one shape.  float() makes TRUE 1.0 and FALSE 0.0.
ToFloat(b) == IF b THEN 1 ELSE 0

RECURSIVE ChannelSum(_, _, _)
ChannelSum(channels, p, n) ==
    IF n = 0 THEN 0
    ELSE ToFloat(channels[n].px[p]) + ChannelSum(channels, p, n - 1)

\* lines 64-68: per pixel, the mean over the channels, > 0, as uint8.
\* mean > 0 is decided on sum > 0 * count, the division left out.
ReduceMask(channels) ==
    [shape |-> channels[1].shape,
     px    |-> [p \in DOMAIN channels[1].px |->
                   IF ChannelSum(channels, p, Len(channels)) > 0 * Len(channels)
                   THEN 1 ELSE 0]]

ReduceMasks(tensor) == [i \in 1..Len(tensor) |-> ReduceMask(tensor[i])]

\* lines 71-76: every mask replaced by its refinement, in order.  The lists
\* the loop may leave; none when mask_to_polygon raises ValueError on a
\* mask without contour, which ends refine_masks.
RECURSIVE PolygonRefinement(_)
PolygonRefinement(reduced) ==
    IF reduced = <<>> THEN {<<>>}
    ELSE {<<mask>> \o rest : mask \in RefineStepResults(Head(reduced)),
                             rest \in PolygonRefinement(Tail(reduced))}

\* lines 71-78 on the list of line 69.
RefineReduced(reduced, polygon_refinement) ==
    IF polygon_refinement THEN PolygonRefinement(reduced) ELSE {reduced}

\* refine_masks: the lists the call may return; none when it raises.
refine_masks(tensor, polygon_refinement) ==
    RefineReduced(ReduceMasks(tensor), polygon_refinement)

(***************************************************************************)
(* Data model (utils.py) and the detector adapter (detection.py)           *)
(***************************************************************************)
\* xyxy with the coordinates grouped by axis.
xxyy(box) == <<box.xmin, box.xmax, box.ymin, box.ymax>>

\* BoundingBox.xyxy
xyxy(box) == <<box.xmin, box.ymin, box.xmax, box.ymax>>

\* DetectionResult.from_dict: score, label and box copied from the detector's
\* dict, mask left at its default None.
from_dict(detection_dict) ==
    [score |-> detection_dict.score,
     label |-> detection_dict.label,
     box   |-> [xmin |-> detection_dict.box.xmin,
                ymin |-> detection_dict.box.ymin,
                xmax |-> detection_dict.box.xmax,
                ymax |-> detection_dict.box.ymax],
     mask  |-> None]

Range(seq) == {seq[i] : i \in 1..Len(seq)}

\* label.endswith(".")
EndsWithPeriod(label) == Len(label) > 0 /\ label[Len(label)] = "."

\* detection.py line 20: label if label.endswith(".") else label+"."
PromptLabels(lbls) ==
    [i \in 1..Len(lbls) |->
        IF EndsWithPeriod(lbls[i]) THEN lbls[i] ELSE Append(lbls[i], ".")]

\* Scores in hundredths.  The detector reports a detection under one of the
\* candidate labels it was given, with a score that passes the threshold.
Scores == {20, 90}
DetectorBoxes(shape) ==
    {[xmin |-> 0, ymin |-> 0, xmax |-> shape[2], ymax |-> shape[1]]}

object_detector(img, candidate_labels, threshold) ==
    LET dicts == [score : {sc \in Scores : sc >= threshold},
                  label : Range(candidate_labels),
                  box   : DetectorBoxes(img.shape)]
    IN  UNION {[1..n -> dicts] : n \in 0..MaxDetections}

\* detect: the lists the call may return (lines 20-25).
detect(img, lbls, threshold) ==
    {[i \in 1..Len(results) |-> from_dict(results[i])] :
        results \in object_detector(img, PromptLabels(lbls), threshold)}

\* get_boxes: [boxes], boxes the xyxy of each result in order.
get_boxes(results) == <<[i \in 1..Len(results) |-> xyxy(results[i].box)]>>

(***************************************************************************)
(* segment (rseg/segmentation.py)                                          *)
(***************************************************************************)
\* processor(images=image, input_boxes=boxes, ...)["pixel_values"].shape[-2:]:
\* with do_resize=False the image's own size (line 21), otherwise the size
\* of the tensor fed to the mask generator.
ModelInputSize == <<4, 4>>
PixelValuesShape(img, do_resize) ==
    IF do_resize THEN ModelInputSize ELSE img.shape

\* segmentator + processor.post_process_masks(...)[0]: one entry per box
\* prompt, each with the generator's channels, as boolean arrays of the size
\* handed over as original_sizes.
Channels == {1, 2}
BoolArrays(shape) == [shape : {shape}, px : [Pixels(shape) -> BOOLEAN]]
post_process_masks(boxes, original_size, reshaped_input_size) ==
    [1..Len(boxes[1]) -> [1..Cardinality(Channels) -> BoolArrays(original_size)]]

\* zip(detection_results, masks): detection_result.mask = mask, for as many
\* pairs as the shorter of the two has (lines 43-44).
AttachMasks(results, ms) ==
    [i \in 1..Len(results) |->
        IF i <= Len(ms) THEN [results[i] EXCEPT !.mask = Some(ms[i])]
        ELSE results[i]]

\* segment: what the call may come to.  raised is TRUE when refine_masks
\* raised; reduced is what refine_masks had after line 68.  refine_masks is
\* taken as RefineReduced of ReduceMasks, once per reduced list.
segment(img, results, polygon_refinement) ==
    LET boxes    == get_boxes(results)
        original == PixelValuesShape(img, FALSE)
        reshaped == PixelValuesShape(img, TRUE)
        reducedLists ==
            {ReduceMasks(tensor) :
                tensor \in post_process_masks(boxes, original, reshaped)}
        outcome(reduced) ==
            LET refined == RefineReduced(reduced, polygon_refinement)
            IN  IF refined = {}
                THEN {[raised |-> TRUE, results |-> results, reduced |-> reduced]}
                ELSE {[raised |-> FALSE, results |-> AttachMasks(results, ms),
                       reduced |-> reduced] : ms \in refined}
    IN  UNION {outcome(reduced) : reduced \in reducedLists}

(***************************************************************************)
(* annotate (rseg/visualization.py).  Arrays live in heap, a sequence      *)
(* indexed by reference; here image is [shape, kind, ref] and a            *)
(* DetectionResult's mask is None or Some(reference).                      *)
(***************************************************************************)
Alloc(h, array) == [heap |-> Append(h, array), ref |-> Len(h) + 1]

\* line 12: np.array(image) of a PIL image is a new array, an ndarray is
\* taken as it is.
ToArray(h, img) ==
    IF img.kind = "PIL" THEN Alloc(h, h[img.ref])
    ELSE [heap |-> h, ref |-> img.ref]

\* RGB <-> BGR
SwapChannels(array) ==
    [array EXCEPT !.px = [p \in DOMAIN array.px |->
                             <<array.px[p][3], array.px[p][2], array.px[p][1]>>]]

\* cv2.cvtColor writing into its source.
cvtColorInPlace(h, src) ==
    [heap |-> [h EXCEPT ![src] = SwapChannels(h[src])], ref |-> src]

\* cv2.cvtColor(src, code) without dst: the result is a new array.
cvtColor(h, src) == Alloc(h, SwapChannels(h[src]))

Paint(array, pixels, color) ==
    [array EXCEPT !.px = [p \in DOMAIN array.px |->
                             IF p \in pixels THEN color ELSE array.px[p]]]

\* cv2.rectangle: the outline of the box, clipped to the array (the stroke
\* is taken one pixel wide).
RectanglePixels(box) ==
    {<<y, x>> : y \in box.ymin..box.ymax, x \in box.xmin..box.xmax}
    \ {<<y, x>> : y \in (box.ymin + 1)..(box.ymax - 1),
                  x \in (box.xmin + 1)..(box.xmax - 1)}

\* cv2.putText at (box.xmin, box.ymin - 10): the glyphs are taken as the
\* pixel of the text origin.
TextRise == 10
TextPixels(box) == {<<box.ymin - TextRise, box.xmin>>}

\* (mask * 255).astype(np.uint8) of a uint8 mask: a new array, modulo 256.
ScaleMask(mask) ==
    [mask EXCEPT !.px = [p \in DOMAIN mask.px |-> (mask.px[p] * 255) % 256]]

\* cv2.drawContours(image, contours, -1, ...): every contour's pixels.
ContourPixels(contours) == {<<q[2], q[1]>> : q \in UNION contours}

\* lines 16-29 for one detection, drawn into the array at ref.
DrawDetection(h, ref, detection, color) ==
    LET boxed == [h EXCEPT ![ref] = Paint(Paint(h[ref],
                                                RectanglePixels(detection.box), color),
                                          TextPixels(detection.box), color)]
    IN  IF detection.mask = None THEN boxed
        ELSE LET scaled == Alloc(boxed, ScaleMask(boxed[detection.mask[1]]))
                 contours == findContours(scaled.heap[scaled.ref])
             IN  [scaled.heap EXCEPT ![ref] =
                     Paint(scaled.heap[ref], ContourPixels(contours), color)]

RECURSIVE DrawDetections(_, _, _, _, _)
DrawDetections(h, ref, results, colors, i) ==
    IF i > Len(results) THEN h
    ELSE DrawDetections(DrawDetection(h, ref, results[i], colors[i]),
                        ref, results, colors, i + 1)

\* annotate: the heap after the call and the reference it returns.
annotate(h, img, results, colors) ==
    LET array == ToArray(h, img)
        bgr   == cvtColor(array.heap, array.ref)
        drawn == DrawDetections(bgr.heap, bgr.ref, results, colors, 1)
    IN  cvtColor(drawn, bgr.ref)

(***************************************************************************)
(* Values the variables hold while a specification does not use them       *)
(***************************************************************************)
NoArgs == [custom_bbox |-> None, save_json |-> FALSE, save_plot |-> FALSE,
           show_plot |-> FALSE, polygon_refinement |-> FALSE, threshold |-> 0]
NoImage == [shape |-> <<0, 0>>]
NoOutput == [json |-> None, stdout |-> <<>>, plot |-> None]

(***************************************************************************)
(* The refinement chain: a mask, the mask refined, the refined mask        *)
(* refined again (utils.py lines 73-76 applied repeatedly).                *)
(***************************************************************************)
MaskWidths == 1..3
RefineShapes == {<<h, w>> : h \in 1..MaxH, w \in MaskWidths}
BinaryMasks ==
    UNION {[shape : {s}, px : [Pixels(s) -> {0, 1}]] : s \in RefineShapes}

InitRefine ==
    /\ pc = "refine"
    /\ masks \in {<<m>> : m \in BinaryMasks}
    /\ args = NoArgs
    /\ image = NoImage
    /\ labels = <<>>
    /\ detection_results = <<>>
    /\ before = <<>>
    /\ ret = None
    /\ output = NoOutput
    /\ error = "none"
    /\ calls = <<>>
    /\ heap = <<>>

Refine ==
    /\ pc = "refine"
    /\ Len(masks) <= MaxRefinements
    /\ \E mask \in RefineStepResults(masks[Len(masks)]) :
           masks' = Append(masks, mask)
    /\ UNCHANGED <<pc, args, image, labels, detection_results, before, ret,
                   output, error, calls, heap>>

RefineRaises ==
    /\ pc = "refine"
    /\ mask_to_polygon(masks[Len(masks)]) = {}
    /\ pc' = "raised"
    /\ error' = "ValueError"
    /\ UNCHANGED <<args, image, labels, detection_results, before, masks, ret,
                   output, calls, heap>>

NextRefine == Refine \/ RefineRaises

SpecRefine == InitRefine /\ [][NextRefine]_vars

\* C9: refining an already-refined mask gives that mask back.
RefinementIdempotent ==
    \A i \in 2..(Len(masks) - 1) : masks[i + 1] = masks[i]

\* C9 witness: a mask of several pixels was refined twice.
RefinedTwice ==
    /\ pc = "refine"
    /\ Len(masks) >= 3
    /\ Cardinality(Foreground(masks[1])) >= 3
    /\ Foreground(masks[2]) # Foreground(masks[1])

(***************************************************************************)
(* detect called on its own                                                *)
(***************************************************************************)
LabelStrings == {<<>>, <<"a">>, <<"a", ".">>, <<"b">>, <<".">>}
MaxLabels == 2
LabelLists == UNION {[1..n -> LabelStrings] : n \in 0..MaxLabels}
Thresholds == {10, 30}
ImageShapes == {<<1, 2>>, <<2, 1>>}

InitDetect ==
    /\ pc = "detect"
    /\ labels \in LabelLists
    /\ args \in {[NoArgs EXCEPT !.threshold = t] : t \in Thresholds}
    /\ image \in {[shape |-> s] : s \in ImageShapes}
    /\ detection_results = <<>>
    /\ before = <<>>
    /\ masks = <<>>
    /\ ret = None
    /\ output = NoOutput
    /\ error = "none"
    /\ calls = <<>>
    /\ heap = <<>>

Detect ==
    /\ pc = "detect"
    /\ \E results \in detect(image, labels, args.threshold) :
           detection_results' = results
    /\ calls' = Append(calls, "detector")
    /\ pc' = "returned"
    /\ UNCHANGED <<args, image, labels, before, masks, ret, output, error, heap>>

NextDetect == Detect

SpecDetect == InitDetect /\ [][NextDetect]_vars

\* C2: every label detect returns is one of the caller's label strings,
\* character for character (no appended period survives).
LabelRoundTrip ==
    pc = "returned" =>
        \A i \in 1..Len(detection_results) :
            detection_results[i].label \in Range(labels)

(***************************************************************************)
(* get_boxes called on its own                                             *)
(***************************************************************************)
Coordinates == 0..1
BoundingBoxes ==
    {b \in [xmin : Coordinates, ymin : Coordinates,
            xmax : Coordinates, ymax : Coordinates] :
        b.xmin <= b.xmax /\ b.ymin <= b.ymax}
BoxedResults ==
    [score : {90}, label : {<<"a">>}, box : BoundingBoxes, mask : {None}]

InitBoxes ==
    /\ pc = "get_boxes"
    /\ detection_results \in UNION {[1..n -> BoxedResults] : n \in 0..MaxDetections}
    /\ before = detection_results
    /\ args = NoArgs
    /\ image = NoImage
    /\ labels = <<>>
    /\ masks = <<>>
    /\ ret = None
    /\ output = NoOutput
    /\ error = "none"
    /\ calls = <<>>
    /\ heap = <<>>

GetBoxes ==
    /\ pc = "get_boxes"
    /\ ret' = Some(get_boxes(detection_results))
    /\ pc' = "returned"
    /\ UNCHANGED <<args, image, labels, detection_results, before, masks,
                   output, error, calls, heap>>

NextBoxes == GetBoxes

SpecBoxes == InitBoxes /\ [][NextBoxes]_vars

\* C7: get_boxes returns a one-element list holding, in input order, the
\* [xmin, ymin, xmax, ymax] of each result, and leaves the results as they were.
GetBoxesContract ==
    pc = "returned" =>
        /\ Len(ret[1]) = 1
        /\ Len(ret[1][1]) = Len(before)
        /\ \A i \in 1..Len(before) :
               /\ Len(ret[1][1][i]) = 4
               /\ ret[1][1][i][1] = before[i].box.xmin
               /\ ret[1][1][i][2] = before[i].box.ymin
               /\ ret[1][1][i][3] = before[i].box.xmax
               /\ ret[1][1][i][4] = before[i].box.ymax
        /\ detection_results = before

\* C7 witness: two results with different boxes went through get_boxes.
GetBoxesOfTwo ==
    /\ pc = "returned"
    /\ Len(before) = 2
    /\ before[1].box # before[2].box
    /\ before[1].box.xmin # before[1].box.ymin
    /\ Len(ret[1][1]) = 2

(***************************************************************************)
(* main (main.py)                                                          *)
(***************************************************************************)
CustomScore == 100
CustomLabel == <<"c", "u", "s", "t", "o", "m">>
CustomBoxes == {<<0, 0, 1, 1>>}
MainLabelLists == {<< <<"a">> >>, << <<"a">>, <<"b", ".">> >>}
MainThresholds == {30}

\* mask.tolist(): the rows as nested lists.
tolist(mask) ==
    [y \in 1..mask.shape[1] |->
        [x \in 1..mask.shape[2] |-> mask.px[<<y - 1, x - 1>>]]]

\* lines 66-73: one dict per result.
detections_dict(results) ==
    [i \in 1..Len(results) |->
        [label |-> results[i].label,
         score |-> results[i].score,
         box   |-> results[i].box,
         mask  |-> IF results[i].mask # None
                   THEN Some(tolist(results[i].mask[1])) ELSE None]]

\* lines 41-44 with the empty list dumped whatever save_json is.
NoDetectionsOutputAlways(a, out) ==
    [out EXCEPT !.json = Some(<<>>),
                !.stdout = Append(out.stdout, "No detections found.")]

\* lines 41-44: the empty list dumped when a path was given, then the message.
NoDetectionsOutput(a, out) ==
    [out EXCEPT !.json = IF a.save_json THEN Some(<<>>) ELSE out.json,
                !.stdout = Append(out.stdout, "No detections found.")]

InitMain ==
    /\ pc = "main"
    /\ args \in [custom_bbox : {None} \cup {Some(b) : b \in CustomBoxes},
                 save_json : BOOLEAN, save_plot : BOOLEAN, show_plot : BOOLEAN,
                 polygon_refinement : BOOLEAN, threshold : MainThresholds]
    /\ image \in {[shape |-> s] : s \in ImageShapes}
    /\ labels \in MainLabelLists
    /\ detection_results = <<>>
    /\ before = <<>>
    /\ masks = <<>>
    /\ ret = None
    /\ output = NoOutput
    /\ error = "none"
    /\ calls = <<>>
    /\ heap = <<>>

\* lines 19-38: the custom box as the one detection, or detect().
MainDetect ==
    /\ pc = "main"
    /\ IF args.custom_bbox # None
       THEN LET custom_bbox == args.custom_bbox[1]
            IN  /\ detection_results' =
                       <<[score |-> CustomScore,
                          label |-> CustomLabel,
                          box   |-> [xmin |-> custom_bbox[1],
                                     ymin |-> custom_bbox[2],
                                     xmax |-> custom_bbox[3],
                                     ymax |-> custom_bbox[4]],
                          mask  |-> None]>>
                /\ calls' = calls
       ELSE /\ \E results \in detect(image, labels, args.threshold) :
                   detection_results' = results
            /\ calls' = Append(calls, "detector")
    /\ pc' = "detected"
    /\ UNCHANGED <<args, image, labels, before, masks, ret, output, error, heap>>

\* lines 40-45
MainNoDetections ==
    /\ pc = "detected"
    /\ detection_results = <<>>
    /\ output' = NoDetectionsOutput(args, output)
    /\ pc' = "done"
    /\ UNCHANGED <<args, image, labels, detection_results, before, masks, ret,
                   error, calls, heap>>

\* lines 48-53
MainSegment ==
    /\ pc = "detected"
    /\ detection_results # <<>>
    /\ before' = detection_results
    /\ calls' = Append(calls, "segmenter")
    /\ \E outcome \in segment(image, detection_results, args.polygon_refinement) :
           /\ detection_results' = outcome.results
           /\ masks' = outcome.reduced
           /\ IF outcome.raised
              THEN pc' = "failed" /\ error' = "ValueError"
              ELSE pc' = "segmented" /\ error' = error
    /\ UNCHANGED <<args, image, labels, ret, output, heap>>

\* lines 56-62
MainPlot ==
    /\ pc = "segmented"
    /\ IF args.save_plot \/ args.show_plot
       THEN /\ output' = [output EXCEPT !.plot = Some([save_name |-> args.save_plot,
                                                        show |-> args.show_plot])]
            /\ calls' = Append(calls, "plot_detections")
       ELSE UNCHANGED <<output, calls>>
    /\ pc' = "plotted"
    /\ UNCHANGED <<args, image, labels, detection_results, before, masks, ret,
                   error, heap>>

\* lines 66-77: open(args.save_json, 'w') raises TypeError on None.
MainSaveJson ==
    /\ pc = "plotted"
    /\ IF args.save_json
       THEN /\ output' = [output EXCEPT
                   !.json = Some(detections_dict(detection_results)),
                   !.stdout = Append(output.stdout,
                                     "Grounded segmentation completed successfully.")]
            /\ pc' = "done"
            /\ error' = error
       ELSE /\ pc' = "failed"
            /\ error' = "TypeError"
            /\ output' = output
    /\ UNCHANGED <<args, image, labels, detection_results, before, masks, ret,
                   calls, heap>>

Next == MainDetect \/ MainNoDetections \/ MainSegment \/ MainPlot \/ MainSaveJson

Init == InitMain

Spec == Init /\ [][Next]_vars

Called(name) == name \in Range(calls)

\* C1: once segment was called it returns the list it was given, entry for
\* entry with label, score and box as they were, each with a mask of the
\* image's (height, width).
SegmentKeepsListAndAttachesMasks ==
    Called("segmenter") =>
        /\ error # "ValueError"
        /\ Len(detection_results) = Len(before)
        /\ \A i \in 1..Len(before) :
               /\ detection_results[i].label = before[i].label
               /\ detection_results[i].score = before[i].score
               /\ detection_results[i].box = before[i].box
               /\ detection_results[i].mask # None
               /\ detection_results[i].mask[1].shape = image.shape

\* C3: with refinement on and a reduced mask without foreground, the batch
\* is not aborted: that detection keeps its empty mask, the others are
\* refined, every detection has a mask.
EmptyMaskDoesNotAbortBatch ==
    (/\ Called("segmenter")
     /\ args.polygon_refinement
     /\ \E i \in 1..Len(masks) : Foreground(masks[i]) = {}) =>
        /\ error # "ValueError"
        /\ \A i \in 1..Len(masks) :
               /\ detection_results[i].mask # None
               /\ detection_results[i].mask[1] \in
                      IF Foreground(masks[i]) = {} THEN {masks[i]}
                      ELSE RefineStepResults(masks[i])

\* C4 as stated: with no detections main ends having written the empty JSON
\* result and the message, whatever the options.
NoDetectionsAlwaysEmitsJson ==
    (pc = "done" /\ detection_results = <<>>) =>
        /\ output.json = Some(<<>>)
        /\ output.stdout = <<"No detections found.">>

\* C4 as amended: with no detections main goes on to its end without error
\* and without segmentation, prints the message, and has written the empty
\* JSON result exactly when a --save_json path was given.
NoDetectionsOutcome ==
    (pc # "main" /\ detection_results = <<>>) =>
        /\ error = "none"
        /\ ~Called("segmenter")
        /\ pc \in {"detected", "done"}
        /\ pc = "detected" => ENABLED MainNoDetections
        /\ pc = "done" =>
               /\ output.stdout = <<"No detections found.">>
               /\ output.json = IF args.save_json THEN Some(<<>>) ELSE None

\* C4 witness: main ended on no detections with no JSON path given.
NoDetectionsWithoutJsonPath ==
    /\ pc = "done"
    /\ detection_results = <<>>
    /\ Called("detector")
    /\ ~args.save_json
    /\ output.stdout = <<"No detections found.">>

\* C5: with a detection and no --save_json path main does not fail at the
\* step that persists the results.
JsonPathOptional ==
    (~args.save_json /\ Len(detection_results) >= 1) => error # "TypeError"

ZeroOne(nested) ==
    \A y \in 1..Len(nested) : \A x \in 1..Len(nested[y]) : nested[y][x] \in {0, 1}

\* C6: the masks segment attaches and main persists hold only 0 and 1.
MasksAreZeroOne ==
    /\ \A i \in 1..Len(detection_results) :
           detection_results[i].mask # None =>
               \A p \in DOMAIN detection_results[i].mask[1].px :
                   detection_results[i].mask[1].px[p] \in {0, 1}
    /\ output.json # None =>
           \A i \in 1..Len(output.json[1]) :
               output.json[1][i].mask # None => ZeroOne(output.json[1][i].mask[1])

\* C8: with a custom box the detector is not invoked and main ends having
\* persisted the one result "custom", 1.0, that box, with a mask.
CustomBoxSegmentedAndPersisted ==
    args.custom_bbox # None =>
        /\ ~Called("detector")
        /\ pc \in {"done", "failed"} =>
               /\ error = "none"
               /\ Called("segmenter")
               /\ output.json # None
               /\ Len(output.json[1]) = 1
               /\ output.json[1][1].label = CustomLabel
               /\ output.json[1][1].score = CustomScore
               /\ xyxy(output.json[1][1].box) = args.custom_bbox[1]
               /\ output.json[1][1].mask # None

(***************************************************************************)
(* annotate called on its own                                              *)
(***************************************************************************)
Colors == {<<255, 0, 0>>, <<0, 0, 255>>}
PixelColors == {<<0, 0, 0>>, <<10, 20, 30>>}
ImageArrays(shape) == [shape : {shape}, px : [Pixels(shape) -> PixelColors]]
MaskArrays(shape) ==
    [shape : {shape}, px : [Pixels(shape) -> {0, 1}]]
    \cup [shape : {shape}, px : [Pixels(shape) -> {FillColor}]]
MaskOptions(shape) == {None} \cup {Some(m) : m \in MaskArrays(shape)}

RECURSIVE PresentMasks(_)
PresentMasks(opts) ==
    IF opts = <<>> THEN <<>>
    ELSE (IF Head(opts) = None THEN <<>> ELSE <<Head(opts)[1]>>)
         \o PresentMasks(Tail(opts))

MaskRef(opts, i) ==
    IF opts[i] = None THEN None
    ELSE Some(1 + Cardinality({j \in 1..i : opts[j] # None}))

InitAnnotate ==
    /\ pc = "annotate"
    /\ \E shape \in ImageShapes, kind \in {"PIL", "ndarray"},
          n \in 0..MaxDetections :
         \E array \in ImageArrays(shape),
            opts \in [1..n -> MaskOptions(shape)] :
             /\ image = [shape |-> shape, kind |-> kind, ref |-> 1]
             /\ heap = <<array>> \o PresentMasks(opts)
             /\ detection_results =
                    [i \in 1..n |->
                        [score |-> 90, label |-> <<"a">>,
                         box |-> CHOOSE b \in DetectorBoxes(shape) : TRUE,
                         mask |-> MaskRef(opts, i)]]
    /\ before = [heap |-> heap, detection_results |-> detection_results]
    /\ args = NoArgs
    /\ labels = <<>>
    /\ masks = <<>>
    /\ ret = None
    /\ output = NoOutput
    /\ error = "none"
    /\ calls = <<>>

Annotate ==
    /\ pc = "annotate"
    /\ \E colors \in [1..Len(detection_results) -> Colors] :
           LET result == annotate(heap, image, detection_results, colors)
           IN  /\ heap' = result.heap
               /\ ret' = Some(result.ref)
    /\ pc' = "returned"
    /\ UNCHANGED <<args, image, labels, detection_results, before, masks,
                   output, error, calls>>

NextAnnotate == Annotate

SpecAnnotate == InitAnnotate /\ [][NextAnnotate]_vars

\* C10: annotate leaves the caller's image and every detection (label,
\* score, box, mask) as they were and returns another buffer.
AnnotateIsPure ==
    pc = "returned" =>
        /\ detection_results = before.detection_results
        /\ \A r \in 1..Len(before.heap) : heap[r] = before.heap[r]
        /\ ret[1] \notin 1..Len(before.heap)

\* C10 witness: an ndarray image annotated with a detection that has a
\* mask, the returned buffer drawn on.
AnnotatedArrayWithMask ==
    /\ pc = "returned"
    /\ image.kind = "ndarray"
    /\ \E i \in 1..Len(detection_results) :
           /\ detection_results[i].mask # None
           /\ Foreground(heap[detection_results[i].mask[1]]) # {}
    /\ heap[ret[1]] # heap[image.ref]

====
